---- MODULE Spec2Model ----
(***************************************************************************)
(* Model of src/watcher.py: the Nginx log watcher (class LogWatcher).      *)
(*                                                                         *)
(* The specifications share the watcher's state and handlers:             *)
(*   Spec      the follow loop of tail_log, the line returned by           *)
(*             f.readline() being an input; small windows, every shape of  *)
(*             line (non-JSON, JSON that is no object, wrongly typed       *)
(*             fields);                                                    *)
(*   RateSpec  the same loop with a window of MinSamples entries or more,  *)
(*             so that check_error_rate evaluates and alerts;              *)
(*   ThresholdSpec  one entry read with a full window of 10 to MaxTotal    *)
(*             statuses, of any error count;                               *)
(*   FloodSpec the same loop with a window smaller than MinSamples and     *)
(*             failed requests only;                                       *)
(*   TailSpec  tail_log from its first statement, with the log file and    *)
(*             the process that appends to it explicit; TailFairSpec is    *)
(*             TailSpec with a follower that keeps running.                *)
(*                                                                         *)
(* time.time() is the variable clock; Tick lets time pass.  Times are in   *)
(* units of the model (cooldown is a small number of them).                *)
(***************************************************************************)
EXTENDS Integers, Sequences, FiniteSets, TLC

VARIABLES
    \* configuration, read from the environment by __init__
    slack_webhook, error_threshold, window_size, cooldown, read_existing,
    maintenance_mode,
    \* LogWatcher state
    last_pool, request_window, last_failover_alert, last_error_alert,
    \* control: where run/tail_log stands, and tail_log's locals
    pc, wait_time, fpos,
    \* environment: wall clock, the log file
    clock, file_exists, file,
    \* observation only (never read by the handlers)
    history,    \* statuses of the tracked entries, in arrival order
    seen_change,\* a pool change was seen (alerted or suppressed)
    alert_times,\* per kind, the times of the latest two alerts dispatched
    handed,     \* TailSpec: the texts handed to parse_log_line, in order
    ev          \* what the latest step did

config == <<slack_webhook, error_threshold, window_size, cooldown,
            read_existing, maintenance_mode>>
watcher == <<last_pool, request_window, last_failover_alert, last_error_alert>>
tailing == <<wait_time, fpos, file_exists, file, handed>>
vars == <<config, watcher, pc, tailing, clock, history, seen_change, alert_times, ev>>

-----------------------------------------------------------------------------
\* Bounds of the model.
MaxClock == 3          \* the clock runs over 1..MaxClock
MaxCooldown == 1       \* ALERT_COOLDOWN_SEC is drawn from 0..MaxCooldown
MaxWindow == 2         \* Spec: WINDOW_SIZE is drawn from 0..MaxWindow
MaxTracked == 3        \* Spec: at most this many tracked entries
RateExtra == 1         \* RateSpec: WINDOW_SIZE in MinSamples..MinSamples+RateExtra-1,
                       \* and MinSamples+RateExtra tracked entries at most
MaxErrors == 1         \* RateSpec: at most this many entries of status >= 500
MaxFile == 3           \* TailSpec: the writer makes at most this many writes
MaxTotal == 20         \* ThresholdSpec: WINDOW_SIZE in MinSamples..MaxTotal

\* Program constants.
MinSamples == 10       \* check_error_rate: len(self.request_window) < 10
ErrorStatus == 500     \* check_error_rate: status >= 500
MaxWait == 30          \* tail_log: max_wait = 30
PollSecs == 2          \* tail_log: time.sleep(2); wait_time += 2

None == "None"         \* Python's None, as the value of last_pool

Min(a, b) == IF a < b THEN a ELSE b

-----------------------------------------------------------------------------
\* JSON values as json.loads returns them.  t is the Python type, s the value
\* of a str, n the value of an int or bool, or of a float truncated toward 0.
JStr(x)   == [t |-> "str",   s |-> x,  n |-> 0]
JInt(k)   == [t |-> "int",   s |-> "", n |-> k]
JFloat(k) == [t |-> "float", s |-> "", n |-> k]   \* k + a fraction, finite
JBool(b)  == [t |-> "bool",  s |-> "", n |-> IF b THEN 1 ELSE 0]
JInf      == [t |-> "inf",   s |-> "", n |-> 0]   \* Infinity, 1e999
JNaN      == [t |-> "nan",   s |-> "", n |-> 0]
JNull     == [t |-> "null",  s |-> "", n |-> 0]
JList     == [t |-> "list",  s |-> "", n |-> 0]
JDict     == [t |-> "dict",  s |-> "", n |-> 0]
Absent    == [t |-> "absent", s |-> "", n |-> 0]  \* the key is not in the object

Keys == {"pool", "status", "upstream_status", "request_time", "request"}

\* A log line: text that is no JSON, JSON that is no object (truthy: 123,
\* "abc", [1], true; falsy: null, 0, "", [], false), or a JSON object.
Entry(p, st, up, rt, rq) ==
    [pool |-> p, status |-> st, upstream_status |-> up, request_time |-> rt,
     request |-> rq]
NoEntry == Entry(Absent, Absent, Absent, Absent, Absent)
TextLine == [kind |-> "text", truthy |-> FALSE, entry |-> NoEntry]
ScalarLine(truthy) == [kind |-> "scalar", truthy |-> truthy, entry |-> NoEntry]
\* A dict is truthy unless it is empty.
ObjectLine(e) ==
    [kind |-> "object", truthy |-> \E k \in Keys : e[k] # Absent, entry |-> e]

-----------------------------------------------------------------------------
\* The decimal texts among the strings of the model, with int(text).
DecimalText == [x \in {"500", "200"} |-> IF x = "500" THEN 500 ELSE 200]

\* int(v): the value, or the exception Python raises.
PyInt(v) ==
    CASE v.t \in {"int", "bool", "float"} -> [exc |-> "", n |-> v.n]
      [] v.t = "str" ->
            IF v.s \in DOMAIN DecimalText
            THEN [exc |-> "", n |-> DecimalText[v.s]]
            ELSE [exc |-> "ValueError", n |-> 0]
      [] v.t = "nan" -> [exc |-> "ValueError", n |-> 0]
      [] v.t = "inf" -> [exc |-> "OverflowError", n |-> 0]
      [] OTHER -> [exc |-> "TypeError", n |-> 0]

\* f"{v:5s}": the format code s is accepted by str alone.
PyFormatS(v) ==
    CASE v.t = "str" -> ""
      [] v.t \in {"int", "bool", "float", "inf", "nan"} -> "ValueError"
      [] OTHER -> "TypeError"

\* v[:50]: str and list can be sliced.
PySlice(v) == IF v.t \in {"str", "list"} THEN "" ELSE "TypeError"

\* entry.get(key, default)
Get(entry, key, default) == IF entry[key] = Absent THEN default ELSE entry[key]

\* The watcher's fields, as the handlers below pass them on, with what the
\* handlers did to the outside (observation: calls, posts, evaluated, ...).
Self ==
    [last_pool |-> last_pool, request_window |-> request_window,
     last_failover_alert |-> last_failover_alert,
     last_error_alert |-> last_error_alert,
     exc |-> "",          \* the exception that left process_log_entry, if any
     tracked |-> FALSE,   \* the status was appended to the window
     status |-> 0,        \* the status appended
     pool |-> "",         \* the pool passed to check_failover
     changed |-> FALSE,   \* check_failover saw pool != last_pool
     evaluated |-> FALSE, \* check_error_rate computed the rate
     calls |-> {},        \* alerts dispatched: calls of send_slack_alert
     posts |-> <<>>,      \* requests.post calls made, with their outcome
     pool_field |-> ""]   \* "Current Pool" of the error-rate alert

AlertKinds == {"failover", "error_rate"}
\* What requests.post does: status 200, another status, or an exception.
Deliveries == {"200", "non200", "exception"}

\* Mutant: the maintenance flag is not looked at.
send_slack_alert_Unmuted(self, title, delivery) ==
    [self EXCEPT !.calls = @ \cup {title},
                 !.posts = Append(@, [title |-> title, result |-> delivery])]

\* Mutant: a POST that did not return 200 is made a second time.
send_slack_alert_Retry(self, title, delivery) ==
    IF maintenance_mode
    THEN [self EXCEPT !.calls = @ \cup {title}]
    ELSE LET post == [title |-> title, result |-> delivery]
         IN [self EXCEPT !.calls = @ \cup {title},
                         !.posts = IF delivery = "200" THEN Append(@, post)
                                   ELSE Append(Append(@, post), post)]

\* send_slack_alert: nothing leaves the process in maintenance mode; else one
\* POST, whose outcome is printed and changes nothing.
send_slack_alert(self, title, delivery) ==
    IF maintenance_mode
    THEN [self EXCEPT !.calls = @ \cup {title}]
    ELSE [self EXCEPT !.calls = @ \cup {title},
                      !.posts = Append(@, [title |-> title, result |-> delivery])]

\* Mutant: last_pool moves only when the alert is dispatched.
check_failover_AlertedOnly(self, pool, now, delivery) ==
    IF self.last_pool = None
    THEN [self EXCEPT !.last_pool = pool]
    ELSE IF pool # self.last_pool
    THEN IF now - self.last_failover_alert > cooldown
         THEN [send_slack_alert(self, "failover", delivery)
                  EXCEPT !.last_failover_alert = now, !.last_pool = pool,
                         !.changed = TRUE]
         ELSE [self EXCEPT !.changed = TRUE]
    ELSE self

\* Mutant: no boot-time baseline; None is compared like a pool.
check_failover_NoBaseline(self, pool, now, delivery) ==
    IF pool # self.last_pool
    THEN LET sent ==
                 IF now - self.last_failover_alert > cooldown
                 THEN [send_slack_alert(self, "failover", delivery)
                          EXCEPT !.last_failover_alert = now]
                 ELSE self
         IN [sent EXCEPT !.last_pool = pool, !.changed = TRUE]
    ELSE self

\* Mutant: one cooldown timestamp for both kinds of alert.
check_failover_SharedStamp(self, pool, now, delivery) ==
    IF self.last_pool = None
    THEN [self EXCEPT !.last_pool = pool]
    ELSE IF pool # self.last_pool
    THEN LET sent ==
                 IF now - self.last_failover_alert > cooldown
                 THEN [send_slack_alert(self, "failover", delivery)
                          EXCEPT !.last_failover_alert = now,
                                 !.last_error_alert = now]
                 ELSE self
         IN [sent EXCEPT !.last_pool = pool, !.changed = TRUE]
    ELSE self

\* check_failover(pool), time.time() reading now.
check_failover(self, pool, now, delivery) ==
    IF self.last_pool = None
    THEN [self EXCEPT !.last_pool = pool]
    ELSE IF pool # self.last_pool
    THEN LET sent ==
                 IF now - self.last_failover_alert > cooldown
                 THEN [send_slack_alert(self, "failover", delivery)
                          EXCEPT !.last_failover_alert = now]
                 ELSE self
         IN [sent EXCEPT !.last_pool = pool, !.changed = TRUE]
    ELSE self

\* The counts for which (error_count / total) * 100, computed in binary
\* floating point, comes out just above the exact percentage.
RoundsUp == {<<11, 20>>, <<7, 25>>, <<14, 25>>}

\* error_rate > self.error_threshold, the threshold being a whole percentage.
RateExceeds(error_count, total, threshold) ==
    \/ error_count * 100 > threshold * total
    \/ error_count * 100 = threshold * total /\ <<error_count, total>> \in RoundsUp

ErrorCount(window) ==
    Cardinality({i \in 1..Len(window) : window[i] >= ErrorStatus})

\* Mutant: in maintenance mode the suppressed alert leaves its timestamp.
check_error_rate_MutedNoStamp(self, now, delivery) ==
    IF Len(self.request_window) < MinSamples
    THEN self
    ELSE LET error_count == ErrorCount(self.request_window)
             total == Len(self.request_window)
             seen == [self EXCEPT !.evaluated = TRUE]
         IN IF RateExceeds(error_count, total, error_threshold)
            THEN IF now - self.last_error_alert > cooldown
                 THEN [send_slack_alert(
                           [seen EXCEPT !.pool_field =
                               IF seen.last_pool = None THEN "unknown"
                               ELSE seen.last_pool],
                           "error_rate", delivery)
                          EXCEPT !.last_error_alert =
                                     IF maintenance_mode THEN @ ELSE now]
                 ELSE seen
            ELSE seen

\* Mutant: the rate is computed as soon as the window is full.
check_error_rate_FullWindow(self, now, delivery) ==
    IF Len(self.request_window) < Min(MinSamples, window_size)
    THEN self
    ELSE LET error_count == ErrorCount(self.request_window)
             total == Len(self.request_window)
             seen == [self EXCEPT !.evaluated = TRUE]
         IN IF RateExceeds(error_count, total, error_threshold)
            THEN IF now - self.last_error_alert > cooldown
                 THEN [send_slack_alert(
                           [seen EXCEPT !.pool_field =
                               IF seen.last_pool = None THEN "unknown"
                               ELSE seen.last_pool],
                           "error_rate", delivery)
                          EXCEPT !.last_error_alert = now]
                 ELSE seen
            ELSE seen

\* Mutant: no cold-start guard.
check_error_rate_NoGuard(self, now, delivery) ==
    IF Len(self.request_window) < 1
    THEN self
    ELSE LET error_count == ErrorCount(self.request_window)
             total == Len(self.request_window)
             seen == [self EXCEPT !.evaluated = TRUE]
         IN IF RateExceeds(error_count, total, error_threshold)
               /\ now - self.last_error_alert > cooldown
            THEN [send_slack_alert(seen, "error_rate", delivery)
                     EXCEPT !.last_error_alert = now]
            ELSE seen

\* check_error_rate(), time.time() reading now.
check_error_rate(self, now, delivery) ==
    IF Len(self.request_window) < MinSamples
    THEN self
    ELSE LET error_count == ErrorCount(self.request_window)
             total == Len(self.request_window)
             seen == [self EXCEPT !.evaluated = TRUE]
         IN IF RateExceeds(error_count, total, error_threshold)
            THEN IF now - self.last_error_alert > cooldown
                 THEN [send_slack_alert(
                           [seen EXCEPT !.pool_field =
                               IF seen.last_pool = None THEN "unknown"
                               ELSE seen.last_pool],
                           "error_rate", delivery)
                          EXCEPT !.last_error_alert = now]
                 ELSE seen
            ELSE seen

\* Mutant: a full window refuses the new status.
DequeAppend_KeepOldest(window, x, maxlen) ==
    IF Len(window) >= maxlen THEN window ELSE Append(window, x)

\* deque(maxlen=n).append(x): the oldest element leaves a full deque.
DequeAppend(window, x, maxlen) ==
    IF maxlen = 0 THEN window
    ELSE IF Len(window) = maxlen THEN Append(Tail(window), x)
    ELSE Append(window, x)

\* parse_log_line: json.loads, None on JSONDecodeError.
parse_log_line(line) ==
    IF line.kind = "text" THEN [kind |-> "None", truthy |-> FALSE, entry |-> NoEntry]
    ELSE line

\* The exception, if any, of the lines of process_log_entry before "Update
\* tracking": int(status) catches ValueError and TypeError; the print formats
\* pool and upstream_status with the code s and slices request.
CoercedStatus(entry) ==
    LET r == PyInt(Get(entry, "status", JInt(0)))
    IN IF r.exc \in {"ValueError", "TypeError"} THEN [exc |-> "", n |-> 0] ELSE r

DisplayExc(entry) ==
    LET e1 == PyFormatS(Get(entry, "pool", JStr("unknown")))
        e2 == PyFormatS(Get(entry, "upstream_status", JStr("-")))
        e3 == PySlice(Get(entry, "request", JStr("-")))
    IN IF e1 # "" THEN e1 ELSE IF e2 # "" THEN e2 ELSE e3

\* Mutant: the pool "-" is tracked like any other.
IgnoredPool_DashTracked(pool) ==
    \/ pool.t = "null"
    \/ pool.t = "str" /\ pool.s \in {"unknown", ""}

IgnoredPool(pool) ==
    \/ pool.t = "null"
    \/ pool.t = "str" /\ pool.s \in {"unknown", "-", ""}

\* Mutant: the error rate is checked before the failover check.
process_log_entry_RateFirst(self, parsed, now, deliveries) ==
    IF parsed.kind # "object"
    THEN [self EXCEPT !.exc = "AttributeError"]
    ELSE LET entry == parsed.entry
             pool == Get(entry, "pool", JStr("unknown"))
             status == CoercedStatus(entry)
         IN IF IgnoredPool(pool) THEN self
            ELSE IF status.exc # "" THEN [self EXCEPT !.exc = status.exc]
            ELSE IF DisplayExc(entry) # "" THEN [self EXCEPT !.exc = DisplayExc(entry)]
            ELSE LET recorded ==
                         [self EXCEPT
                            !.request_window =
                                DequeAppend(@, status.n, window_size),
                            !.tracked = TRUE, !.status = status.n,
                            !.pool = pool.s]
                     rate == check_error_rate(recorded, now, deliveries[2])
                 IN check_failover(rate, pool.s, now, deliveries[1])

\* process_log_entry(entry) on a value that is no dict: entry.get raises.
\* On a dict: the ignored pools return at once; then the coercion, the print,
\* and the three tracking steps in their order.
process_log_entry(self, parsed, now, deliveries) ==
    IF parsed.kind # "object"
    THEN [self EXCEPT !.exc = "AttributeError"]
    ELSE LET entry == parsed.entry
             pool == Get(entry, "pool", JStr("unknown"))
             status == CoercedStatus(entry)
         IN IF IgnoredPool(pool) THEN self
            ELSE IF status.exc # "" THEN [self EXCEPT !.exc = status.exc]
            ELSE IF DisplayExc(entry) # "" THEN [self EXCEPT !.exc = DisplayExc(entry)]
            ELSE LET recorded ==
                         [self EXCEPT
                            !.request_window =
                                DequeAppend(@, status.n, window_size),
                            !.tracked = TRUE, !.status = status.n,
                            !.pool = pool.s]
                     failover ==
                         check_failover(recorded, pool.s, now, deliveries[1])
                 IN check_error_rate(failover, now, deliveries[2])

\* Mutant: a line that does not decode is counted as a failed request.
handle_line_CountsGarbage(self, line, now, deliveries) ==
    IF line.kind = "text"
    THEN [self EXCEPT !.request_window =
                          DequeAppend(@, ErrorStatus, window_size)]
    ELSE IF line.truthy THEN process_log_entry(self, line, now, deliveries)
    ELSE self

\* The body of the read loops of tail_log for one line that was read:
\* entry = parse_log_line(line); if entry: process_log_entry(entry).
handle_line(self, line, now, deliveries) ==
    LET entry == parse_log_line(line)
    IN IF entry.truthy THEN process_log_entry(self, entry, now, deliveries)
       ELSE self

-----------------------------------------------------------------------------
\* The lines the specifications feed.
Pools == {"blue", "green"}
Upstream == JStr("200")
ReqTime == JFloat(0)
Request == JStr("GET /")

\* Well-formed entries of a tracked pool.
GoodLines ==
    {ObjectLine(Entry(JStr(p), s, Upstream, ReqTime, Request)) :
        p \in Pools, s \in {JInt(200), JInt(500)}}
\* Entries whose pool is ignored, with a status that would count as an error.
IgnoredLines ==
    {ObjectLine(Entry(p, JInt(500), Upstream, ReqTime, Request)) :
        p \in {Absent, JNull, JStr("unknown"), JStr("-"), JStr("")}}
    \cup {ObjectLine(Entry(JStr("-"), JInf, JInt(200), ReqTime, JInt(1)))}
\* Entries of pool blue whose status is of another type, or absent.
StatusLines ==
    {ObjectLine(Entry(JStr("blue"), s, Upstream, ReqTime, Request)) :
        s \in {Absent, JNull, JStr("abc"), JStr("500"), JFloat(200), JList,
               JNaN, JInf}}
\* Entries with another field of another type, or absent.
TypedLines ==
    {ObjectLine(Entry(p, JInt(200), Upstream, ReqTime, Request)) :
        p \in {JInt(1), JList}}
    \cup {ObjectLine(Entry(JStr("green"), JInt(200), u, ReqTime, Request)) :
        u \in {JInt(200), JNull, Absent}}
    \cup {ObjectLine(Entry(JStr("green"), JInt(200), Upstream, t, Request)) :
        t \in {JStr("0.1"), JNull, Absent}}
    \cup {ObjectLine(Entry(JStr("green"), JInt(200), Upstream, ReqTime, r)) :
        r \in {JInt(1), JNull, JList, JDict, Absent}}
\* Lines that are no JSON object, and the empty object.
OtherLines == {TextLine, ScalarLine(TRUE), ScalarLine(FALSE), ObjectLine(NoEntry)}

SpecLines == GoodLines \cup IgnoredLines \cup StatusLines \cup TypedLines
             \cup OtherLines

-----------------------------------------------------------------------------
NoEv ==
    [op |-> "none", kind |-> "", truthy |-> FALSE, exc |-> "", tracked |-> FALSE,
     status |-> 0, pool |-> "", changed |-> FALSE, first_change |-> FALSE,
     evaluated |-> FALSE, calls |-> {}, posts |-> <<>>, pool_field |-> "",
     given_pool |-> Absent]

LastTwo(s) == IF Len(s) > 2 THEN Tail(s) ELSE s

Running == pc \notin {"exit0", "exit1"}

\* __init__: the fields as constructed.
InitWatcher ==
    /\ last_pool = None
    /\ request_window = <<>>
    /\ last_failover_alert = 0
    /\ last_error_alert = 0
    /\ history = <<>>
    /\ seen_change = FALSE
    /\ alert_times = [k \in AlertKinds |-> <<>>]
    /\ handed = <<>>
    /\ ev = NoEv

\* The outcomes of the POSTs a line leads to: drawn when the line leads to one.
DeliveryChoices(line) ==
    IF handle_line(Self, line, clock, <<"200", "200">>).posts = <<>>
    THEN {<<"200", "200">>}
    ELSE Deliveries \X Deliveries

\* One line handed to the loop body: the watcher's fields after it, and
\* run's handler of an exception that leaves tail_log (sys.exit(1)).
Handle(line) ==
    \E d \in DeliveryChoices(line) :
    \E r \in {handle_line(Self, line, clock, d)} :
       /\ last_pool' = r.last_pool
       /\ request_window' = r.request_window
       /\ last_failover_alert' = r.last_failover_alert
       /\ last_error_alert' = r.last_error_alert
       /\ pc' = IF r.exc # "" THEN "exit1" ELSE pc
       /\ history' = IF r.tracked THEN Append(history, r.status) ELSE history
       /\ seen_change' = (seen_change \/ r.changed)
       /\ alert_times' =
             [k \in AlertKinds |->
                 IF k \in r.calls THEN LastTwo(Append(alert_times[k], clock))
                 ELSE alert_times[k]]
       /\ ev' = [op |-> "line", kind |-> line.kind, truthy |-> line.truthy,
                 exc |-> r.exc, tracked |-> r.tracked, status |-> r.status,
                 pool |-> r.pool, changed |-> r.changed,
                 first_change |-> r.changed /\ ~seen_change,
                 evaluated |-> r.evaluated, calls |-> r.calls,
                 posts |-> r.posts, pool_field |-> r.pool_field,
                 given_pool |-> line.entry.pool]

\* The follow loop of tail_log, f.readline() returning a line.
Follow ==
    /\ pc = "follow"
    /\ Len(history) < MaxTracked
    /\ \E line \in SpecLines : Handle(line)
    /\ UNCHANGED <<config, tailing, clock>>

\* Time passes (ev describes a line step only in the state that step led to).
Tick ==
    /\ Running
    /\ clock < MaxClock
    /\ clock' = clock + 1
    /\ ev' = NoEv
    /\ UNCHANGED <<config, watcher, pc, tailing, history, seen_change, alert_times>>

\* Mutant: the interrupt is handled like any other exception.
Interrupt_ExitsNonZero ==
    /\ Running
    /\ pc' = "exit1"
    /\ UNCHANGED <<config, watcher, tailing, clock, history, seen_change, alert_times, ev>>

\* run: KeyboardInterrupt out of tail_log ends the process normally.
Interrupt ==
    /\ Running
    /\ pc' = "exit0"
    /\ UNCHANGED <<config, watcher, tailing, clock, history, seen_change, alert_times, ev>>

\* __init__ reading the environment; sys.exit(1) without a webhook URL.
Init ==
    /\ slack_webhook \in {"", "https://hooks.example/T"}
    /\ error_threshold = 2
    /\ window_size \in 0..MaxWindow
    /\ cooldown \in 0..MaxCooldown
    /\ read_existing = TRUE
    /\ maintenance_mode \in BOOLEAN
    /\ InitWatcher
    /\ pc = IF slack_webhook = "" THEN "exit1" ELSE "follow"
    /\ wait_time = 0 /\ fpos = 0 /\ file_exists = TRUE /\ file = <<>>
    /\ clock \in 1..MaxClock

Next == Follow \/ Tick \/ Interrupt

Spec == Init /\ [][Next]_vars

-----------------------------------------------------------------------------
\* RateSpec: the follow loop with a window that reaches MinSamples entries.
RateFollow ==
    /\ pc = "follow"
    /\ Len(history) < MinSamples + RateExtra
    /\ \E line \in GoodLines :
          /\ line.entry.status.n >= ErrorStatus => ErrorCount(history) < MaxErrors
          /\ Handle(line)
    /\ UNCHANGED <<config, tailing, clock>>

RateInit ==
    /\ slack_webhook = "https://hooks.example/T"
    /\ error_threshold = 2
    /\ window_size \in MinSamples..(MinSamples + RateExtra - 1)
    /\ cooldown \in 0..MaxCooldown
    /\ read_existing = TRUE
    /\ maintenance_mode \in BOOLEAN
    /\ InitWatcher
    /\ pc = "follow"
    /\ wait_time = 0 /\ fpos = 0 /\ file_exists = TRUE /\ file = <<>>
    /\ clock \in 1..MaxClock

RateNext == RateFollow \/ Tick

RateSpec == RateInit /\ [][RateNext]_vars

-----------------------------------------------------------------------------
\* ThresholdSpec: one tracked entry read with a full window of any error
\* count, for windows of MinSamples to MaxTotal entries.
\*
\* The window the entry meets was filled while the clock was within the
\* cooldown of the initial timestamps, so that no alert was dispatched.
Thresholds == {2, 30, 55}

\* A full window of total statuses, error_count of them errors, at its oldest
\* or at its newest end.
Window(error_count, total, oldest) ==
    [i \in 1..total |->
        IF (oldest /\ i <= error_count) \/ (~oldest /\ i > total - error_count)
        THEN ErrorStatus ELSE 200]

ThresholdFollow ==
    /\ pc = "follow"
    /\ ev.op = "none"
    /\ \E line \in GoodLines : Handle(line)
    /\ UNCHANGED <<config, tailing, clock>>

ThresholdInit ==
    /\ slack_webhook = "https://hooks.example/T"
    /\ error_threshold \in Thresholds
    /\ window_size \in MinSamples..MaxTotal
    /\ cooldown = MaxCooldown
    /\ read_existing = TRUE
    /\ maintenance_mode = FALSE
    /\ last_pool = "blue"
    /\ \E error_count \in 0..window_size, oldest \in BOOLEAN :
          request_window = Window(error_count, window_size, oldest)
    /\ last_failover_alert = 0
    /\ last_error_alert = 0
    /\ history = request_window
    /\ seen_change = FALSE
    /\ alert_times = [k \in AlertKinds |-> <<>>]
    /\ handed = <<>>
    /\ ev = NoEv
    /\ pc = "follow"
    /\ wait_time = 0 /\ fpos = 0 /\ file_exists = TRUE /\ file = <<>>
    /\ clock \in (MaxCooldown + 1)..MaxClock

ThresholdNext == ThresholdFollow

ThresholdSpec == ThresholdInit /\ [][ThresholdNext]_vars

-----------------------------------------------------------------------------
\* FloodSpec: the follow loop with a window smaller than MinSamples, every
\* entry read being a failed request.
FloodLines == {line \in GoodLines : line.entry.status.n >= ErrorStatus}

FloodFollow ==
    /\ pc = "follow"
    /\ Len(history) < MinSamples + RateExtra
    /\ \E line \in FloodLines : Handle(line)
    /\ UNCHANGED <<config, tailing, clock>>

FloodInit ==
    /\ slack_webhook = "https://hooks.example/T"
    /\ error_threshold = 2
    /\ window_size \in 0..(MinSamples - 1)
    /\ cooldown \in 0..MaxCooldown
    /\ read_existing = TRUE
    /\ maintenance_mode \in BOOLEAN
    /\ InitWatcher
    /\ pc = "follow"
    /\ wait_time = 0 /\ fpos = 0 /\ file_exists = TRUE /\ file = <<>>
    /\ clock \in 1..MaxClock

FloodNext == FloodFollow \/ Tick

FloodSpec == FloodInit /\ [][FloodNext]_vars

-----------------------------------------------------------------------------
\* TailSpec: tail_log with the log file and its writer.
\*
\* The file is the sequence of the writes made to it.  A write appends a whole
\* line (text and newline), or the head of a line, followed by a later write
\* of its tail (the rest of the text and the newline).  fpos is the number of
\* writes the follower's file object has read past.
TailLines ==
    {ObjectLine(Entry(JStr("blue"), JInt(200), Upstream, ReqTime, Request)),
     ObjectLine(Entry(JStr("green"), JInt(500), Upstream, ReqTime, Request))}

Chunk(line, part) == [line |-> line, part |-> part]
HeadPending == file # <<>> /\ file[Len(file)].part = "head"

\* os.path.getsize(self.log_path), zero or not
FileEmpty == file = <<>>

\* The log writer creates the file.
CreateFile ==
    /\ ~file_exists
    /\ file_exists' = TRUE
    /\ UNCHANGED <<config, watcher, pc, wait_time, fpos, file, handed, clock,
                   history, seen_change, alert_times, ev>>

\* The log writer appends a line in one write.
WriteLine ==
    /\ file_exists /\ Len(file) < MaxFile /\ ~HeadPending
    /\ \E line \in TailLines : file' = Append(file, Chunk(line, "whole"))
    /\ UNCHANGED <<config, watcher, pc, wait_time, fpos, file_exists, handed,
                   clock, history, seen_change, alert_times, ev>>

\* The log writer appends a line in two writes.
WriteHead ==
    /\ file_exists /\ Len(file) + 1 < MaxFile /\ ~HeadPending
    /\ \E line \in TailLines : file' = Append(file, Chunk(line, "head"))
    /\ UNCHANGED <<config, watcher, pc, wait_time, fpos, file_exists, handed,
                   clock, history, seen_change, alert_times, ev>>

WriteTail ==
    /\ HeadPending
    /\ file' = Append(file, Chunk(file[Len(file)].line, "tail"))
    /\ UNCHANGED <<config, watcher, pc, wait_time, fpos, file_exists, handed,
                   clock, history, seen_change, alert_times, ev>>

\* What f.readline() (or the next step of "for line in f") returns at fpos,
\* and the position after it: nothing at the end of the file; a line up to
\* its newline; or, the newline not being written yet, the text there is.
AtEof == fpos = Len(file)
ReadChunk ==
    LET c == file[fpos + 1]
    IN IF c.part = "head" /\ fpos + 2 <= Len(file)
       THEN [got |-> Chunk(c.line, "whole"), pos |-> fpos + 2]
       ELSE [got |-> c, pos |-> fpos + 1]

\* The text of a chunk as parse_log_line sees it: part of the text of a JSON
\* object is no JSON.
TextOf(c) == IF c.part = "whole" THEN c.line ELSE TextLine

\* A line was read: the loop body runs on it.
ReadAndHandle ==
    \E rd \in {ReadChunk} :
       /\ fpos' = rd.pos
       /\ handed' = Append(handed, [line |-> rd.got.line, part |-> rd.got.part,
                                    phase |-> pc])
       /\ Handle(TextOf(rd.got))

tail_idle == UNCHANGED <<watcher, history, seen_change, alert_times, ev>>

\* while not os.path.exists(self.log_path): time.sleep(2)
AwaitFile ==
    /\ pc = "await_file"
    /\ pc' = IF file_exists THEN "await_content" ELSE pc
    /\ tail_idle
    /\ UNCHANGED <<config, tailing, clock>>

\* Mutant: the loop tests wait_time <= max_wait.
AwaitContent_OneMore ==
    /\ pc = "await_content"
    /\ IF FileEmpty /\ wait_time <= MaxWait
       THEN wait_time' = wait_time + PollSecs /\ pc' = pc
       ELSE wait_time' = wait_time /\ pc' = "size_warn"
    /\ tail_idle
    /\ UNCHANGED <<config, fpos, file_exists, file, handed, clock>>

\* while getsize == 0 and wait_time < max_wait: time.sleep(2); wait_time += 2
AwaitContent ==
    /\ pc = "await_content"
    /\ IF FileEmpty /\ wait_time < MaxWait
       THEN wait_time' = wait_time + PollSecs /\ pc' = pc
       ELSE wait_time' = wait_time /\ pc' = "size_warn"
    /\ tail_idle
    /\ UNCHANGED <<config, fpos, file_exists, file, handed, clock>>

\* if getsize == 0: print the warning
SizeWarn ==
    /\ pc = "size_warn"
    /\ pc' = "open"
    /\ tail_idle
    /\ UNCHANGED <<config, tailing, clock>>

\* with open(self.log_path, 'r', buffering=1) as f
OpenFile ==
    /\ pc = "open"
    /\ fpos' = 0
    /\ pc' = "choose"
    /\ tail_idle
    /\ UNCHANGED <<config, wait_time, file_exists, file, handed, clock>>

\* if self.read_existing and os.path.getsize(self.log_path) > 0
ChooseStart ==
    /\ pc = "choose"
    /\ pc' = IF read_existing /\ ~FileEmpty THEN "replay" ELSE "seek"
    /\ tail_idle
    /\ UNCHANGED <<config, tailing, clock>>

\* for line in f: entry = parse_log_line(line); if entry: process_log_entry
Replay ==
    /\ pc = "replay"
    /\ IF AtEof
       THEN /\ pc' = "follow"
            /\ tail_idle
            /\ UNCHANGED <<fpos, handed>>
       ELSE ReadAndHandle
    /\ UNCHANGED <<config, wait_time, file_exists, file, clock>>

\* f.seek(0, 2)
SeekEnd ==
    /\ pc = "seek"
    /\ fpos' = Len(file)
    /\ pc' = "follow"
    /\ tail_idle
    /\ UNCHANGED <<config, wait_time, file_exists, file, handed, clock>>

\* while True: line = f.readline(); if not line: time.sleep(0.1); continue
TailFollow ==
    /\ pc = "follow"
    /\ IF AtEof
       THEN /\ pc' = pc
            /\ tail_idle
            /\ UNCHANGED <<fpos, handed>>
       ELSE ReadAndHandle
    /\ UNCHANGED <<config, wait_time, file_exists, file, clock>>

TailInit ==
    /\ slack_webhook = "https://hooks.example/T"
    /\ error_threshold = 2
    /\ window_size = MaxWindow
    /\ cooldown = MaxCooldown
    /\ read_existing \in BOOLEAN
    /\ maintenance_mode = FALSE
    /\ InitWatcher
    /\ pc = "await_file"
    /\ wait_time = 0 /\ fpos = 0 /\ file_exists = FALSE /\ file = <<>>
    /\ clock = MaxClock

TailNext ==
    \/ CreateFile \/ WriteLine \/ WriteHead \/ WriteTail
    \/ AwaitFile \/ AwaitContent \/ SizeWarn \/ OpenFile \/ ChooseStart
    \/ Replay \/ SeekEnd \/ TailFollow

TailSpec == TailInit /\ [][TailNext]_vars

\* TailSpec with a follower that keeps running: time.sleep returns and the
\* statement after it is executed.  Nothing is assumed of the writer.
TailFairSpec ==
    /\ TailSpec
    /\ WF_vars(AwaitContent) /\ WF_vars(SizeWarn) /\ WF_vars(OpenFile)

-----------------------------------------------------------------------------
\* Claims.

LastN(s, n) == SubSeq(s, Len(s) - n + 1, Len(s))
LineStep == ev.op = "line"

\* The time of the latest alert of a kind before the step ev describes, -1
\* when there was none.
PriorAlert(kind) ==
    LET at == alert_times[kind]
        before == IF kind \in ev.calls THEN Len(at) - 1 ELSE Len(at)
    IN IF before >= 1 THEN at[before] ELSE -1

\* C1: the window never holds more than window_size statuses, and holds the
\* statuses of the last min(k, window_size) tracked entries in arrival order,
\* k being the number of tracked entries so far.
C1_WindowIsLastN ==
    /\ Len(request_window) <= window_size
    /\ request_window = LastN(history, Min(Len(history), window_size))

\* C1 witness: the window overflowed and the oldest status, a 500, is gone.
C1_Evicted ==
    /\ window_size >= 2
    /\ Len(history) > window_size
    /\ history[1] = 500
    /\ \A i \in 1..Len(request_window) : request_window[i] # 500

\* C2: a pool change dispatches a failover alert exactly when it is the first
\* ever change to alert, or more than cooldown after the latest failover
\* alert; in particular the first pool change after startup is never
\* suppressed.
C2_FailoverCooldown ==
    (LineStep /\ ev.changed) =>
        ("failover" \in ev.calls <=>
            \/ PriorAlert("failover") = -1
            \/ clock - PriorAlert("failover") > cooldown)

\* C3: a line that is no JSON object (no JSON at all, or JSON that is a
\* string, number, array, boolean or null) is dropped: no exception leaves
\* the loop, no alert is dispatched, nothing is recorded.
C3_MalformedDropped ==
    (LineStep /\ ev.kind \in {"text", "scalar"}) =>
        (ev.exc = "" /\ ev.calls = {} /\ ~ev.tracked)

\* C4: a line that decodes to a JSON object is processed without a fatal
\* error, whatever the types of its fields.
C4_ObjectNeverFatal ==
    (LineStep /\ ev.kind = "object") => ev.exc = ""

\* C5: in maintenance mode no step makes an HTTP call.
C5_MaintenanceSilent ==
    maintenance_mode => ev.posts = <<>>

\* C5 witness: in maintenance mode one entry dispatched both alerts, and
\* nothing was posted.
C5_BothSuppressed ==
    /\ maintenance_mode
    /\ ev.calls = {"failover", "error_rate"}
    /\ ev.posts = <<>>

\* The lines written to the file, and the lines handed whole to the parser.
RECURSIVE WholeLines(_)
WholeLines(chunks) ==
    IF chunks = <<>> THEN <<>>
    ELSE IF chunks[1].part = "tail" THEN WholeLines(Tail(chunks))
    ELSE IF chunks[1].part = "head"
    THEN IF Len(chunks) >= 2 THEN <<chunks[1].line>> \o WholeLines(Tail(chunks))
         ELSE <<>>
    ELSE <<chunks[1].line>> \o WholeLines(Tail(chunks))

RECURSIVE HandedLines(_)
HandedLines(chunks) ==
    IF chunks = <<>> THEN <<>>
    ELSE IF chunks[1].part = "whole"
    THEN <<chunks[1].line>> \o HandedLines(Tail(chunks))
    ELSE HandedLines(Tail(chunks))

AllWhole == \A i \in 1..Len(file) : file[i].part = "whole"

\* C6: with backlog replay enabled no line written to the file is skipped:
\* once the follower has read up to the end of the file, the lines handed to
\* the parser are the lines of the file, in file order.  (Stated here for
\* files whose lines were each appended in one write.)
C6_ReplayReadsEveryLine ==
    (read_existing /\ AllWhole /\ pc = "follow" /\ AtEof) =>
        HandedLines(handed) = WholeLines(file)

\* C7: no error-rate alert is dispatched, and no rate is computed, while
\* fewer than MinSamples statuses have been recorded; the rate is computed on
\* the entry that brings the window to MinSamples entries.
C7_ColdStart ==
    LineStep =>
        /\ "error_rate" \in ev.calls => Len(history) >= MinSamples
        /\ (ev.tracked /\ Len(history) < MinSamples) => ~ev.evaluated
        /\ (ev.tracked /\ Len(history) = MinSamples
               /\ window_size >= MinSamples) => ev.evaluated

\* C7 witness: the entry that brought the window to MinSamples entries
\* dispatched an error-rate alert.
C7_AlertAtTenth ==
    /\ LineStep /\ ev.tracked
    /\ Len(history) = MinSamples
    /\ ev.evaluated
    /\ "error_rate" \in ev.calls

\* C8: two consecutive error-rate alerts are more than cooldown apart, and an
\* entry that finds the rate above the threshold more than cooldown after the
\* latest error-rate alert dispatches one, whatever failover alerts were
\* dispatched meanwhile.
C8_ErrorCooldown ==
    LineStep =>
        /\ ("error_rate" \in ev.calls /\ PriorAlert("error_rate") # -1) =>
               clock - PriorAlert("error_rate") > cooldown
        /\ (/\ ev.tracked
            /\ Len(request_window) >= MinSamples
            /\ RateExceeds(ErrorCount(request_window), Len(request_window),
                           error_threshold)
            /\ PriorAlert("error_rate") # -1
            /\ clock - PriorAlert("error_rate") > cooldown)
           => "error_rate" \in ev.calls

\* C8 witness: a second error-rate alert, dispatched by an entry that also
\* dispatched a failover alert.
C8_SecondAlertAfterFailover ==
    /\ LineStep
    /\ ev.calls = {"failover", "error_rate"}
    /\ PriorAlert("error_rate") # -1

\* C9: the first tracked entry sets last_pool to its pool and dispatches no
\* failover alert.
C9_FirstObservation ==
    (LineStep /\ ev.tracked /\ Len(history) = 1) =>
        /\ last_pool = ev.pool
        /\ "failover" \notin ev.calls
        /\ ~ev.changed

\* C9 witness: the first tracked entry, of pool green, read when the clock is
\* past the cooldown.
C9_FirstIsGreen ==
    /\ LineStep /\ ev.tracked /\ Len(history) = 1
    /\ ev.pool = "green" /\ last_pool = "green"
    /\ clock > cooldown

\* C10: a step that reads a line failing json.loads leaves the window,
\* last_pool and both alert timestamps unchanged.
C10_DecodeFailureFrame ==
    [][(ev'.op = "line" /\ ev'.kind = "text" /\ pc = "follow")
          => UNCHANGED watcher]_vars

\* C10 witness: a line failed to decode after entries were recorded and a
\* failover alert was dispatched.
C10_GarbageAfterAlert ==
    /\ LineStep /\ ev.kind = "text"
    /\ request_window # <<>>
    /\ last_failover_alert > 0

\* C11: a step that reads an entry whose pool is "", "-", "unknown" or absent
\* appends no status, leaves last_pool and both alert timestamps unchanged,
\* dispatches no alert and raises nothing.
C11_IgnoredPoolFrame ==
    [][(/\ ev'.op = "line" /\ ev'.kind = "object" /\ pc = "follow"
        /\ ev'.given_pool \in {JStr(""), JStr("-"), JStr("unknown"), Absent})
          => /\ UNCHANGED watcher
             /\ ~ev'.tracked /\ ev'.exc = ""
             /\ ev'.calls = {} /\ ev'.posts = <<>>]_vars

\* C11 witness: an entry of pool "-" was read past the cooldown, after an
\* entry of another pool was recorded; the window has room and holds no error.
C11_IgnoredErrorAfterAlert ==
    /\ LineStep /\ ev.kind = "object" /\ ev.given_pool = JStr("-")
    /\ last_pool = "blue"
    /\ window_size = MaxWindow /\ Len(request_window) = 1
    /\ ErrorCount(request_window) = 0
    /\ clock > cooldown

\* C12: once the window holds at least 10 statuses, an error-rate alert is
\* dispatched only when 100 * (statuses >= 500) / (window length) is strictly
\* above the threshold, and past the cooldown every such rate dispatches one:
\* a rate equal to the threshold never alerts.
C12_StrictThreshold ==
    (LineStep /\ Len(request_window) >= MinSamples) =>
        /\ "error_rate" \in ev.calls =>
              100 * ErrorCount(request_window)
                  > error_threshold * Len(request_window)
        /\ (/\ 100 * ErrorCount(request_window)
                  > error_threshold * Len(request_window)
            /\ PriorAlert("error_rate") = -1
            /\ clock > cooldown) => "error_rate" \in ev.calls

\* C13: a step whose POST failed (another status than 200, or an exception)
\* raises nothing, has made one POST per alert dispatched, and leaves the
\* window, last_pool and both timestamps as the same entry leaves them at the
\* same time when every POST returns 200.
C13_FailedDeliveryHarmless ==
    [][(/\ ev'.op = "line" /\ ev'.tracked /\ pc = "follow"
        /\ \E i \in 1..Len(ev'.posts) : ev'.posts[i].result # "200")
          => /\ ev'.exc = "" /\ pc' = "follow"
             /\ Len(ev'.posts) = Cardinality(ev'.calls)
             /\ \A k \in ev'.calls :
                   Cardinality({i \in 1..Len(ev'.posts) :
                                   ev'.posts[i].title = k}) = 1
             /\ \E ok \in {handle_line(Self,
                                ObjectLine(Entry(JStr(ev'.pool), JInt(ev'.status),
                                                 Upstream, ReqTime, Request)),
                                clock, <<"200", "200">>)} :
                   /\ last_pool' = ok.last_pool
                   /\ request_window' = ok.request_window
                   /\ last_failover_alert' = ok.last_failover_alert
                   /\ last_error_alert' = ok.last_error_alert
                   /\ ev'.calls = ok.calls]_vars

\* C13 witness: one entry dispatched both alerts; the POST of the first
\* raised and the POST of the second returned another status than 200.
C13_BothDeliveriesFail ==
    /\ LineStep
    /\ ev.posts = <<[title |-> "failover", result |-> "exception"],
                    [title |-> "error_rate", result |-> "non200"]>>
    /\ last_failover_alert = clock /\ last_error_alert = clock

C15_LastPoolFollowsEntry ==
    (LineStep /\ ev.tracked) => last_pool = ev.pool

\* C15 witness: a pool change within the cooldown of an earlier failover
\* alert dispatched no alert and moved last_pool.
C15_SuppressedChangeMoves ==
    /\ LineStep /\ ev.tracked /\ ev.changed
    /\ "failover" \notin ev.calls
    /\ PriorAlert("failover") # -1
    /\ clock - PriorAlert("failover") <= cooldown
    /\ last_pool = ev.pool

\* C16: whenever an error-rate alert is dispatched, the window's newest
\* status is the status of the entry being processed and the alert's
\* "Current Pool" is that entry's pool.
C16_RateAlertSeesEntry ==
    (LineStep /\ "error_rate" \in ev.calls) =>
        /\ ev.tracked
        /\ request_window # <<>>
        /\ request_window[Len(request_window)] = ev.status
        /\ ev.pool_field = ev.pool
        /\ ev.pool_field = last_pool

\* C16 witness: the tenth tracked entry changed the pool to green and is the
\* window's only error; the error-rate alert it dispatched names green.
C16_TenthEntryTipsRate ==
    /\ LineStep /\ "error_rate" \in ev.calls
    /\ Len(history) = MinSamples
    /\ ev.status = ErrorStatus /\ ErrorCount(request_window) = 1
    /\ ev.changed /\ ev.pool = "green" /\ ev.pool_field = "green"

\* C17: every line appended during the follow phase is handed to the parser
\* once, whole and in file order, also a line appended in two writes.  Stated
\* for runs whose replay read every earlier line whole: once the follower is
\* at the end of the file and no line is half written, the lines handed
\* whole are the lines of the file.
C17_FollowHandsWholeLines ==
    (/\ pc = "follow" /\ AtEof /\ ~HeadPending
     /\ handed # <<>> /\ handed[1].phase = "replay"
     /\ \A i \in 1..Len(handed) :
           handed[i].phase = "replay" => handed[i].part = "whole")
       => HandedLines(handed) = WholeLines(file)

\* C18: the content wait ends.  wait_time never passes MaxWait and grows by
\* PollSecs per poll of an empty file; a poll that sees a non-empty file
\* leaves the wait; and the follower, once in the content wait, comes to have
\* opened the file, whether or not the file has content.
C18_ContentWaitEnds ==
    /\ [](wait_time <= MaxWait)
    /\ [][(pc = "await_content" /\ wait_time' # wait_time)
             => /\ FileEmpty /\ pc' = pc
                /\ wait_time' = wait_time + PollSecs]_vars
    /\ [][(pc = "await_content" /\ ~FileEmpty /\ UNCHANGED <<file, file_exists>>)
             => pc' = "size_warn"]_vars
    /\ (pc = "await_content") ~> (pc = "choose")

\* C18 witness: the file was opened after MaxWait seconds of polling and is
\* still empty.
C18_OpenedStillEmpty ==
    /\ pc = "choose" /\ FileEmpty /\ file_exists
    /\ wait_time = MaxWait

\* What a tracked entry of a pool and status, read at time now, makes of the
\* fields <<last_pool, request_window, last_failover_alert, last_error_alert>>,
\* told without the maintenance flag.
TrackedEffect(w, pool, status, now) ==
    LET window == LastN(Append(w[2], status),
                        Min(Len(w[2]) + 1, window_size))
        failover == /\ w[1] # None /\ pool # w[1]
                    /\ now - w[3] > cooldown
        error_rate == /\ Len(window) >= MinSamples
                      /\ RateExceeds(ErrorCount(window), Len(window),
                                     error_threshold)
                      /\ now - w[4] > cooldown
    IN [fields |-> <<pool, window,
                     IF failover THEN now ELSE w[3],
                     IF error_rate THEN now ELSE w[4]>>,
        calls |-> (IF failover THEN {"failover"} ELSE {})
                  \cup (IF error_rate THEN {"error_rate"} ELSE {})]

\* C19: maintenance mode changes only whether the POST is made.  With the
\* flag on or off, a tracked entry leaves the window, last_pool and both
\* timestamps that the entry, the time and the fields before it determine,
\* and dispatches the same alerts; it makes one POST per alert with the flag
\* off and none with the flag on.
C19_MaintenanceOnlyMutes ==
    [][(ev'.op = "line" /\ ev'.tracked /\ pc = "follow" /\ pc' = "follow")
          => \E e \in {TrackedEffect(watcher, ev'.pool, ev'.status, clock)} :
                /\ watcher' = e.fields
                /\ ev'.calls = e.calls
                /\ Len(ev'.posts) = IF maintenance_mode THEN 0
                                    ELSE Cardinality(e.calls)]_vars

\* C19 witness: in maintenance mode one entry dispatched both alerts; no
\* POST was made and both timestamps are the time of the entry.
C19_MutedAlertsStamped ==
    /\ maintenance_mode /\ LineStep
    /\ ev.calls = {"failover", "error_rate"} /\ ev.posts = <<>>
    /\ last_failover_alert = clock /\ last_error_alert = clock
    /\ clock > 0

\* C20: with a configured window size smaller than 10 the window never holds
\* 10 statuses, the rate is never computed and no error-rate alert is ever
\* dispatched, whatever the statuses recorded.
C20_SmallWindowNeverAlerts ==
    window_size < MinSamples =>
        /\ Len(request_window) < MinSamples
        /\ "error_rate" \notin ev.calls /\ ~ev.evaluated
        /\ alert_times["error_rate"] = <<>>
        /\ last_error_alert = 0

\* C20 witness: a window of 9 is full of statuses >= 500 after more than 10
\* failed requests, read past the cooldown.
C20_NineErrorsOfNine ==
    /\ window_size = MinSamples - 1
    /\ LineStep /\ ev.tracked
    /\ Len(history) > MinSamples
    /\ Len(request_window) = window_size
    /\ ErrorCount(request_window) = window_size
    /\ clock > cooldown

====
